---- MODULE Spec2Model ----
(***************************************************************************)
(* Model of roles/infoscreen/templates/infoscreen.py: the tick-driven      *)
(* control loop of the OLED info screen.  One action per phase of the      *)
(* loop body of main() (handle_input, update_data, draw_interface, sleep)  *)
(* and one per step of its exception/cleanup path.                         *)
(***************************************************************************)
EXTENDS Integers, Sequences, FiniteSets, TLC

\* ---------------------------------------------------------------------
\* Configuration (infoscreen.py lines 17-23).  LOOP_SPEED is 0.1 s, the
\* tick counts are int(seconds / LOOP_SPEED).
\* ---------------------------------------------------------------------
SCREEN_TIMEOUT_TICKS == 150
REBOOT_HOLD_TICKS == 30
SHUTDOWN_HOLD_TICKS == 60
STATS_UPDATE_TICKS == 5
INFO_CYCLE_TICKS == 20

\* Bound of the model: the button is never held for more than MaxHold
\* consecutive ticks (the code leaves btn_hold_ticks unbounded).
MaxHold == 62

\* class MenuState / class InfoScreen
INFO == "INFO"
REBOOT_WAIT == "REBOOT_WAIT"
SHUTDOWN_WAIT == "SHUTDOWN_WAIT"
MenuState == {INFO, REBOOT_WAIT, SHUTDOWN_WAIT}
NETWORK == "NETWORK"
PERFORMANCE == "PERFORMANCE"
InfoScreen == {NETWORK, PERFORMANCE}

\* AppState defaults of the two caches
DefaultNet == <<"Loading...", "...">>
DefaultPerf == <<0, 0, 0>>

\* What the stat providers can return.  get_network_info: the hostname
\* step either returns the host name or raises (check_output is outside
\* the try); the IP step returns an address or, on failure, "No IP".
HostOutcomes == {"node1", "raise"}
IpOutcomes == {"10.0.0.7", "No IP"}
PerfReadings == {<<12, 40, 71>>}

VARIABLES
  \* AppState
  mode, screen, display_timer, btn_hold_ticks, stats_tick, cycle_tick,
  cache_net, cache_perf,
  \* frame buffer (image) and what the display hardware shows (shown)
  image, shown,
  \* commands handed to run_sys_command, GPIO.cleanup() calls
  cmds, gpio_cleanups,
  \* position in main() and the exception being propagated
  pc, exc,
  \* observations of the current tick and of the run so far
  is_pressed,   \* the sample read by the latest handle_input
  run,          \* consecutive pressed samples ending at the latest sample
  released,     \* length of the hold released by the latest handle_input
  relScreen,    \* screen before that release ("none" if no release)
  toggled,      \* the latest update_data toggled screen
  gap,          \* refresher runs between that toggle and the previous reset
  cycleAge,     \* consecutive active refresher runs since the last
                \* toggle / release / start (-1: interrupted by a frozen run)
  fetched,      \* provider called by the latest update_data
  fullAge,      \* renderer runs since display_timer was last set to full
  timerBefore,  \* display_timer before the latest pressed sample (-1 if
                \* the latest sample was unpressed)
  trace         \* display pushes, commands and GPIO cleanups since the
                \* start of the current tick, in the order they happened

appState == <<mode, screen, display_timer, btn_hold_ticks, stats_tick,
              cycle_tick, cache_net, cache_perf>>
hw == <<image, shown, cmds, gpio_cleanups>>
obs == <<is_pressed, run, released, relScreen, toggled, gap, cycleAge,
         fetched, fullAge, timerBefore, trace>>
vars == <<appState, hw, pc, exc, obs>>

LoopPcs == {"handle_input", "update_data", "draw_interface", "sleep"}

\* ---------------------------------------------------------------------
\* draw_overlay: message mode for texts containing "...", menu mode
\* otherwise.
\* ---------------------------------------------------------------------
Blank == <<>>

\* Events of the trace: disp.image(image); disp.show() (or disp.fill(0);
\* disp.show()) with the frame shown, run_sys_command(cmd), GPIO.cleanup().
Show(f) == <<"show", f>>
Run(cmd) == <<"run", <<cmd>>>>
Cleanup == <<"gpio_cleanup", <<>>>>

HasEllipsis(t) ==
  t \in {"Infoscreen Started...", "Rebooting...", "Shutting Down...", "Closing..."}

Capitalize(t) ==
  CASE t = "REBOOT" -> "Reboot"
    [] t = "SHUTDOWN" -> "Shutdown"
    [] OTHER -> t

draw_overlay(t) ==
  IF HasEllipsis(t)
    THEN <<"message", t>>
    ELSE <<"menu", t, "  Release Button  ", "To", Capitalize(t)>>

\* ---------------------------------------------------------------------
\* Initial state: splash drawn and shown, state = AppState().
\* ---------------------------------------------------------------------
Init_zeroStats ==
  /\ mode = INFO
  /\ screen = NETWORK
  /\ display_timer = SCREEN_TIMEOUT_TICKS
  /\ btn_hold_ticks = 0
  /\ stats_tick = 0
  /\ cycle_tick = 0
  /\ cache_net = DefaultNet
  /\ cache_perf = DefaultPerf
  /\ image = draw_overlay("Infoscreen Started...")
  /\ shown = draw_overlay("Infoscreen Started...")
  /\ cmds = <<>>
  /\ gpio_cleanups = 0
  /\ pc = "handle_input"
  /\ exc = "none"
  /\ is_pressed = FALSE
  /\ run = 0
  /\ released = 0
  /\ relScreen = "none"
  /\ toggled = FALSE
  /\ gap = 0
  /\ cycleAge = 0
  /\ fetched = "none"
  /\ fullAge = 0
  /\ timerBefore = -1
  /\ trace = <<>>

Init ==
  /\ mode = INFO
  /\ screen = NETWORK
  /\ display_timer = SCREEN_TIMEOUT_TICKS
  /\ btn_hold_ticks = 0
  /\ stats_tick = STATS_UPDATE_TICKS
  /\ cycle_tick = 0
  /\ cache_net = DefaultNet
  /\ cache_perf = DefaultPerf
  /\ image = draw_overlay("Infoscreen Started...")
  /\ shown = draw_overlay("Infoscreen Started...")
  /\ cmds = <<>>
  /\ gpio_cleanups = 0
  /\ pc = "handle_input"
  /\ exc = "none"
  /\ is_pressed = FALSE
  /\ run = 0
  /\ released = 0
  /\ relScreen = "none"
  /\ toggled = FALSE
  /\ gap = 0
  /\ cycleAge = 0
  /\ fetched = "none"
  /\ fullAge = 0
  /\ timerBefore = -1
  /\ trace = <<>>

\* ---------------------------------------------------------------------
\* handle_input
\* ---------------------------------------------------------------------
\* lines 96-99: the hold state for a hold of h ticks, m being the old mode
HoldMode_eq(h, m) ==
  IF h = SHUTDOWN_HOLD_TICKS THEN SHUTDOWN_WAIT
  ELSE IF h >= REBOOT_HOLD_TICKS THEN REBOOT_WAIT
  ELSE m

HoldMode_strict(h, m) ==
  IF h > SHUTDOWN_HOLD_TICKS THEN SHUTDOWN_WAIT
  ELSE IF h > REBOOT_HOLD_TICKS THEN REBOOT_WAIT
  ELSE m

HoldMode(h, m) ==
  IF h >= SHUTDOWN_HOLD_TICKS THEN SHUTDOWN_WAIT
  ELSE IF h >= REBOOT_HOLD_TICKS THEN REBOOT_WAIT
  ELSE m

\* lines 104-115: the power action a release in mode m executes
ReleaseAction_swapped(m) ==
  IF m = REBOOT_WAIT THEN "shutdown"
  ELSE IF m = SHUTDOWN_WAIT THEN "reboot"
  ELSE "none"

ReleaseAction_else(m) ==
  IF m = SHUTDOWN_WAIT THEN "shutdown" ELSE "reboot"

ReleaseAction(m) ==
  IF m = REBOOT_WAIT THEN "reboot"
  ELSE IF m = SHUTDOWN_WAIT THEN "shutdown"
  ELSE "none"

\* line 92: the timer after a pressed sample, t being the old value
KeepAwake_noReset(t) == t

KeepAwake(t) == SCREEN_TIMEOUT_TICKS

Pressed ==
  /\ btn_hold_ticks < MaxHold
  /\ is_pressed' = TRUE
  /\ run' = run + 1
  /\ timerBefore' = display_timer
  /\ display_timer' = KeepAwake(display_timer)
  /\ btn_hold_ticks' = btn_hold_ticks + 1
  /\ mode' = HoldMode(btn_hold_ticks + 1, mode)
  /\ fullAge' = 0
  /\ released' = 0 /\ relScreen' = "none"
  /\ trace' = <<>>
  /\ pc' = "update_data"
  /\ UNCHANGED <<screen, stats_tick, cycle_tick, cache_net, cache_perf,
                 hw, exc, cycleAge>>

\* lines 104-115: overlay, push, command, exit(0)
PowerAction_noExit(text, cmd) ==
  /\ image' = draw_overlay(text)
  /\ shown' = draw_overlay(text)
  /\ cmds' = Append(cmds, cmd)
  /\ trace' = <<Show(draw_overlay(text)), Run(cmd)>>
  /\ pc' = "update_data"
  /\ UNCHANGED <<appState, gpio_cleanups, cycleAge, fullAge, exc>>

PowerAction_hardExit(text, cmd) ==
  /\ image' = draw_overlay(text)
  /\ shown' = draw_overlay(text)
  /\ cmds' = Append(cmds, cmd)
  /\ trace' = <<Show(draw_overlay(text)), Run(cmd)>>
  /\ exc' = "SystemExit"
  /\ pc' = "done"
  /\ UNCHANGED <<appState, gpio_cleanups, cycleAge, fullAge>>

PowerAction(text, cmd) ==
  /\ image' = draw_overlay(text)
  /\ shown' = draw_overlay(text)
  /\ cmds' = Append(cmds, cmd)
  /\ trace' = <<Show(draw_overlay(text)), Run(cmd)>>
  /\ exc' = "SystemExit"
  /\ pc' = "finally"
  /\ UNCHANGED <<appState, gpio_cleanups, cycleAge, fullAge>>

\* lines 117-121
ResetToInfo_keepScreen ==
  /\ mode' = INFO
  /\ cycle_tick' = 0
  /\ btn_hold_ticks' = 0
  /\ cycleAge' = 0
  /\ trace' = <<>>
  /\ pc' = "update_data"
  /\ UNCHANGED <<screen, display_timer, stats_tick, cache_net, cache_perf,
                 hw, exc, fullAge>>

ResetToInfo_keepHold ==
  /\ mode' = INFO
  /\ screen' = NETWORK
  /\ cycle_tick' = 0
  /\ cycleAge' = 0
  /\ trace' = <<>>
  /\ pc' = "update_data"
  /\ UNCHANGED <<btn_hold_ticks, display_timer, stats_tick, cache_net,
                 cache_perf, hw, exc, fullAge>>

ResetToInfo ==
  /\ mode' = INFO
  /\ screen' = NETWORK
  /\ cycle_tick' = 0
  /\ btn_hold_ticks' = 0
  /\ cycleAge' = 0
  /\ trace' = <<>>
  /\ pc' = "update_data"
  /\ UNCHANGED <<display_timer, stats_tick, cache_net, cache_perf, hw, exc,
                 fullAge>>

NotPressed ==
  /\ is_pressed' = FALSE
  /\ run' = 0
  /\ timerBefore' = -1
  /\ IF btn_hold_ticks > 0
       THEN /\ released' = btn_hold_ticks
            /\ relScreen' = screen
            /\ CASE ReleaseAction(mode) = "reboot" ->
                      PowerAction("Rebooting...", "sudo reboot now")
                 [] ReleaseAction(mode) = "shutdown" ->
                      PowerAction("Shutting Down...", "sudo shutdown now")
                 [] OTHER -> ResetToInfo
       ELSE /\ released' = 0 /\ relScreen' = "none"
            /\ trace' = <<>>
            /\ pc' = "update_data"
            /\ UNCHANGED <<appState, hw, exc, cycleAge, fullAge>>

handle_input ==
  /\ pc = "handle_input"
  /\ toggled' = FALSE /\ gap' = 0 /\ fetched' = "none"
  /\ \/ Pressed
     \/ NotPressed

\* ---------------------------------------------------------------------
\* update_data
\* ---------------------------------------------------------------------
\* line 126: the guard under which update_data returns at once
Frozen_modeOnly(t, m) == m # INFO

Frozen(t, m) == t <= 0 \/ m # INFO

\* line 130
CycleDue(c) == c >= INFO_CYCLE_TICKS

\* line 138
StatsDue_strict(s) == s > STATS_UPDATE_TICKS

StatsDue(s) == s >= STATS_UPDATE_TICKS

\* line 131
Toggle(s) == IF s = NETWORK THEN PERFORMANCE ELSE NETWORK

\* line 132: stats_tick after the cycling step
StatsAfterCycle_noForce(due, s) == s

StatsAfterCycle(due, s) == IF due THEN STATS_UPDATE_TICKS ELSE s

\* lines 69-75 / 139-143: the fetch for screen s.  A raise of the hostname
\* step leaves the loop with the cache and stats_tick as they were.
Fetch(s, st) ==
  IF s = NETWORK
    THEN /\ fetched' = "net"
         /\ \E h \in HostOutcomes, ip \in IpOutcomes :
              IF h = "raise"
                THEN /\ exc' = "CalledProcessError"
                     /\ pc' = "finally"
                     /\ stats_tick' = st
                     /\ UNCHANGED <<cache_net, cache_perf>>
                ELSE /\ cache_net' = <<h, ip>>
                     /\ stats_tick' = 0
                     /\ pc' = "draw_interface"
                     /\ UNCHANGED <<cache_perf, exc>>
    ELSE /\ fetched' = "perf"
         /\ \E p \in PerfReadings : cache_perf' = p
         /\ stats_tick' = 0
         /\ pc' = "draw_interface"
         /\ UNCHANGED <<cache_net, exc>>

update_data ==
  /\ pc = "update_data"
  /\ UNCHANGED <<mode, display_timer, btn_hold_ticks, hw, is_pressed, run,
                 released, relScreen, fullAge, timerBefore, trace>>
  /\ IF Frozen(display_timer, mode)
       THEN /\ toggled' = FALSE /\ gap' = 0 /\ fetched' = "none"
            /\ cycleAge' = -1
            /\ pc' = "draw_interface"
            /\ UNCHANGED <<screen, stats_tick, cycle_tick, cache_net,
                           cache_perf, exc>>
       ELSE LET due == CycleDue(cycle_tick)
                scr == IF due THEN Toggle(screen) ELSE screen
                st  == StatsAfterCycle(due, stats_tick)
            IN  /\ screen' = scr
                /\ cycle_tick' = IF due THEN 0 ELSE cycle_tick + 1
                /\ toggled' = due
                /\ gap' = IF due
                            THEN (IF cycleAge >= 0 THEN cycleAge + 1 ELSE -1)
                            ELSE 0
                /\ cycleAge' = IF due THEN 0
                               ELSE IF cycleAge >= 0 THEN cycleAge + 1 ELSE -1
                /\ IF StatsDue(st)
                     THEN Fetch(scr, st)
                     ELSE /\ stats_tick' = st + 1
                          /\ fetched' = "none"
                          /\ pc' = "draw_interface"
                          /\ UNCHANGED <<cache_net, cache_perf, exc>>

\* ---------------------------------------------------------------------
\* draw_interface
\* ---------------------------------------------------------------------
\* lines 153-168: the frame composed while the display is awake
Content(m, s, net, perf) ==
  IF m = INFO
    THEN IF s = NETWORK
           THEN <<"HOST", net[1], "IP", net[2], "SEPARATOR">>
           ELSE <<"CPU", perf[1], "RAM", perf[2], "DISK", perf[3]>>
  ELSE IF m = REBOOT_WAIT THEN draw_overlay("REBOOT")
  ELSE draw_overlay("SHUTDOWN")

\* line 152
Awake_offByOne(t) == t > 1

Awake_nonNegative(t) == t >= 0

Awake(t) == t > 0

\* line 170
Countdown(t) == t - 1

Frame(t, m, s, net, perf) ==
  IF Awake(t) THEN Content(m, s, net, perf) ELSE Blank

draw_interface ==
  /\ pc = "draw_interface"
  /\ image' = Frame(display_timer, mode, screen, cache_net, cache_perf)
  /\ display_timer' = IF Awake(display_timer) THEN Countdown(display_timer)
                      ELSE display_timer
  /\ shown' = image'
  /\ trace' = Append(trace, Show(image'))
  /\ fullAge' = IF fullAge <= SCREEN_TIMEOUT_TICKS THEN fullAge + 1 ELSE fullAge
  /\ pc' = "sleep"
  /\ UNCHANGED <<mode, screen, btn_hold_ticks, stats_tick, cycle_tick,
                 cache_net, cache_perf, cmds, gpio_cleanups, exc,
                 is_pressed, run, released, relScreen, toggled, gap,
                 cycleAge, fetched, timerBefore>>

\* ---------------------------------------------------------------------
\* main: sleep, KeyboardInterrupt, except and finally
\* ---------------------------------------------------------------------
sleep ==
  /\ pc = "sleep"
  /\ pc' = "handle_input"
  /\ UNCHANGED <<appState, hw, exc, obs>>

KeyboardInterrupt ==
  /\ pc \in LoopPcs
  /\ exc' = "KeyboardInterrupt"
  /\ pc' = "except"
  /\ UNCHANGED <<appState, hw, obs>>

except ==
  /\ pc = "except"
  /\ image' = draw_overlay("Closing...")
  /\ pc' = "finally"
  /\ UNCHANGED <<appState, shown, cmds, gpio_cleanups, exc, obs>>

finally_noBlank ==
  /\ pc = "finally"
  /\ gpio_cleanups' = gpio_cleanups + 1
  /\ trace' = Append(trace, Cleanup)
  /\ pc' = "done"
  /\ UNCHANGED <<appState, image, shown, cmds, exc, is_pressed, run,
                 released, relScreen, toggled, gap, cycleAge, fetched,
                 fullAge, timerBefore>>

finally ==
  /\ pc = "finally"
  /\ shown' = Blank
  /\ gpio_cleanups' = gpio_cleanups + 1
  /\ trace' = trace \o <<Show(Blank), Cleanup>>
  /\ pc' = "done"
  /\ UNCHANGED <<appState, image, cmds, exc, is_pressed, run, released,
                 relScreen, toggled, gap, cycleAge, fetched, fullAge,
                 timerBefore>>

Next ==
  \/ handle_input
  \/ update_data
  \/ draw_interface
  \/ sleep
  \/ KeyboardInterrupt
  \/ except
  \/ finally

Spec == Init /\ [][Next]_vars

TypeOK ==
  /\ mode \in MenuState
  /\ screen \in InfoScreen
  /\ display_timer \in 0..SCREEN_TIMEOUT_TICKS
  /\ btn_hold_ticks \in 0..MaxHold
  /\ stats_tick \in 0..STATS_UPDATE_TICKS
  /\ cycle_tick \in 0..INFO_CYCLE_TICKS
  /\ pc \in LoopPcs \cup {"except", "finally", "done"}

\* =====================================================================
\* Properties
\* =====================================================================
Max(a, b) == IF a >= b THEN a ELSE b

\* A step of handle_input that processes a release (an unpressed sample
\* with btn_hold_ticks > 0); it ends in update_data or, after exit(0), in
\* the finally clause.
ReleaseStep ==
  /\ pc = "handle_input"
  /\ pc' \in {"update_data", "finally"}
  /\ ~is_pressed'
  /\ btn_hold_ticks > 0

\* C1: after H >= 1 consecutive pressed ticks, the button still held, mode
\* is SHUTDOWN_WAIT if H >= SHUTDOWN_HOLD_TICKS, REBOOT_WAIT if
\* REBOOT_HOLD_TICKS <= H < SHUTDOWN_HOLD_TICKS, and INFO otherwise.
C1_HoldClassification ==
  (pc \in LoopPcs /\ is_pressed) =>
     /\ run >= 1
     /\ mode = IF run >= SHUTDOWN_HOLD_TICKS THEN SHUTDOWN_WAIT
               ELSE IF run >= REBOOT_HOLD_TICKS THEN REBOOT_WAIT
               ELSE INFO

C1_Witness ==
  /\ pc = "sleep" /\ is_pressed
  /\ run = SHUTDOWN_HOLD_TICKS
  /\ mode = SHUTDOWN_WAIT

\* C2: a release in REBOOT_WAIT runs the reboot command once and never the
\* shutdown command, a release in SHUTDOWN_WAIT runs the shutdown command
\* once and never the reboot command, and a whole run invokes at most one
\* power action.
C2_ReleaseFiresOnce ==
  /\ [][(ReleaseStep /\ mode = REBOOT_WAIT) =>
           (cmds = <<>> /\ cmds' = <<"sudo reboot now">>)]_vars
  /\ [][(ReleaseStep /\ mode = SHUTDOWN_WAIT) =>
           (cmds = <<>> /\ cmds' = <<"sudo shutdown now">>)]_vars
  /\ [](Len(cmds) <= 1)
  /\ [][cmds # <<>> => cmds' = cmds]_vars

C2_Witness ==
  /\ pc = "finally"
  /\ released >= SHUTDOWN_HOLD_TICKS
  /\ cmds = <<"sudo shutdown now">>

\* C3: a release in INFO mode (a hold of fewer than REBOOT_HOLD_TICKS
\* ticks) invokes no power action and does not end the loop: the tick goes
\* on with update_data and no exception is raised.
C3_TapIsHarmless ==
  [][(ReleaseStep /\ (mode = INFO \/ btn_hold_ticks < REBOOT_HOLD_TICKS)) =>
        (cmds' = cmds /\ cmds = <<>> /\ pc' = "update_data" /\ exc' = "none")]_vars

C3_Witness ==
  /\ pc = "update_data"
  /\ released = REBOOT_HOLD_TICKS - 1
  /\ mode = INFO
  /\ cmds = <<>>
  /\ exc = "none"

\* C4: after handle_input has handled a release without terminating, mode
\* is INFO, screen is NETWORK, cycle_tick is 0 and btn_hold_ticks is 0,
\* whatever screen and cycle_tick were before.
C4_ReleaseResets ==
  /\ [][(ReleaseStep /\ pc' = "update_data") =>
          (mode' = INFO /\ screen' = NETWORK /\ cycle_tick' = 0
           /\ btn_hold_ticks' = 0)]_vars
  /\ []((released > 0 /\ pc = "update_data") =>
          (mode = INFO /\ screen = NETWORK /\ cycle_tick = 0
           /\ btn_hold_ticks = 0))

C4_Witness ==
  /\ pc = "update_data"
  /\ released > 0
  /\ relScreen = PERFORMANCE
  /\ screen = NETWORK
  /\ cycle_tick = 0

\* C5: while the loop runs, btn_hold_ticks is the number of consecutive
\* pressed samples ending at the latest sample (so it grows by one per
\* pressed tick) and it is 0 after an unpressed sample.
C5_HoldTicksCountRun ==
  (pc \in LoopPcs) =>
     /\ btn_hold_ticks = run
     /\ (~is_pressed => btn_hold_ticks = 0)

C5_Witness ==
  /\ pc = "sleep" /\ is_pressed
  /\ btn_hold_ticks = REBOOT_HOLD_TICKS + 1

\* C6: k renderer runs after display_timer was last full (at start, that is
\* k idle ticks) it is SCREEN_TIMEOUT_TICKS - k, positive for
\* k < SCREEN_TIMEOUT_TICKS and 0 from k = SCREEN_TIMEOUT_TICKS on; from
\* then on it stays 0 and every frame is blank until a pressed sample.
C6_TimeoutAfterN ==
  /\ display_timer = Max(SCREEN_TIMEOUT_TICKS - fullAge, 0)
  /\ (fullAge < SCREEN_TIMEOUT_TICKS => display_timer > 0)
  /\ (fullAge >= SCREEN_TIMEOUT_TICKS => display_timer = 0)
  /\ ((fullAge > SCREEN_TIMEOUT_TICKS /\ pc \in LoopPcs) => shown = Blank)

C6_Witness ==
  /\ pc = "sleep"
  /\ ~is_pressed
  /\ fullAge = SCREEN_TIMEOUT_TICKS + 1
  /\ display_timer = 0
  /\ shown = Blank

\* C7 as stated: after a tick whose sample was pressed, display_timer is
\* SCREEN_TIMEOUT_TICKS.
C7_Original ==
  (pc = "sleep" /\ is_pressed) => display_timer = SCREEN_TIMEOUT_TICKS

\* C7 amended: a pressed sample makes handle_input set display_timer to
\* SCREEN_TIMEOUT_TICKS, which is its value when update_data and
\* draw_interface of that tick start; draw_interface of the same tick
\* decrements it, so after the tick it is SCREEN_TIMEOUT_TICKS - 1.
C7_PressRefillsTimer ==
  /\ ((is_pressed /\ pc \in {"update_data", "draw_interface"}) =>
        display_timer = SCREEN_TIMEOUT_TICKS)
  /\ ((is_pressed /\ pc \in {"sleep", "handle_input"}) =>
        display_timer = SCREEN_TIMEOUT_TICKS - 1)

C7_Witness ==
  /\ pc = "update_data" /\ is_pressed
  /\ timerBefore = 2
  /\ display_timer = SCREEN_TIMEOUT_TICKS

\* C8 as stated: two consecutive toggles of screen, and the start (or a
\* release) and the first toggle after it, are exactly INFO_CYCLE_TICKS
\* active refresher ticks apart.
C8_TogglePeriod ==
  (toggled /\ gap >= 0) => gap = INFO_CYCLE_TICKS

\* C9 as stated: a run of update_data that toggles screen leaves
\* stats_tick at STATS_UPDATE_TICKS and the fetch to the following tick.
C9_Original ==
  (toggled /\ pc = "draw_interface") =>
     (stats_tick = STATS_UPDATE_TICKS /\ fetched = "none")

\* C9 amended: a run of update_data that toggles screen calls, in that
\* same run, the stat provider of the newly active screen; when the call
\* returns its result is in the cache of that screen and stats_tick is 0.
C9_ToggleFetchesSameTick ==
  toggled =>
     /\ fetched = (IF screen = NETWORK THEN "net" ELSE "perf")
     /\ (pc \in {"draw_interface", "sleep"} =>
           /\ stats_tick = 0
           /\ (screen = NETWORK => cache_net # DefaultNet)
           /\ (screen = PERFORMANCE => cache_perf \in PerfReadings))

C9_Witness ==
  /\ pc = "draw_interface"
  /\ toggled
  /\ screen = PERFORMANCE
  /\ fetched = "perf"
  /\ stats_tick = 0

\* C10: a run of update_data with mode # INFO or display_timer = 0 changes
\* none of screen, cycle_tick, stats_tick, cache_net and cache_perf and
\* calls no stat provider.
C10_RefresherFrozen ==
  [][(pc = "update_data" /\ pc' # "except"
      /\ (mode # INFO \/ display_timer = 0)) =>
        (UNCHANGED <<screen, cycle_tick, stats_tick, cache_net, cache_perf>>
         /\ fetched' = "none" /\ pc' = "draw_interface")]_vars

C10_Witness ==
  /\ pc = "draw_interface"
  /\ display_timer = 0
  /\ mode = INFO
  /\ cycleAge = -1
  /\ fetched = "none"

\* C11 as stated: a failure of the network lookup, of the hostname step or
\* of the IP step, is caught: after a run of update_data that called the
\* network provider the loop goes on with no exception pending and
\* cache_net holds a fetched or placeholder pair.
C11_LookupFailureCaught ==
  (fetched = "net" /\ exc # "KeyboardInterrupt") =>
     /\ pc \in LoopPcs
     /\ exc = "none"
     /\ cache_net # DefaultNet

\* C12: a confirming release pushes the confirmation overlay, then runs the
\* power command, then leaves the loop by exit(0); once a power command has
\* run, no step of handle_input, update_data or draw_interface follows:
\* only the finally clause runs and the process ends.
C12_ConfirmThenExit ==
  /\ [][(ReleaseStep /\ mode = REBOOT_WAIT) =>
          /\ trace' = <<Show(draw_overlay("Rebooting...")),
                        Run("sudo reboot now")>>
          /\ pc' = "finally" /\ exc' = "SystemExit"]_vars
  /\ [][(ReleaseStep /\ mode = SHUTDOWN_WAIT) =>
          /\ trace' = <<Show(draw_overlay("Shutting Down...")),
                        Run("sudo shutdown now")>>
          /\ pc' = "finally" /\ exc' = "SystemExit"]_vars
  /\ [][cmds # <<>> =>
          /\ pc = "finally" /\ pc' = "done"
          /\ UNCHANGED <<appState, image, cmds>>]_vars
  /\ [](cmds # <<>> => pc \in {"finally", "done"})

C12_Witness ==
  /\ pc = "done"
  /\ cmds = <<"sudo reboot now">>
  /\ Len(trace) >= 2
  /\ trace[1] = Show(draw_overlay("Rebooting..."))
  /\ trace[2] = Run("sudo reboot now")

\* Number of GPIO.cleanup() events in a trace
RECURSIVE Cleanups(_)
Cleanups(t) ==
  IF t = <<>> THEN 0
  ELSE (IF t[1][1] = "gpio_cleanup" THEN 1 ELSE 0) + Cleanups(Tail(t))

\* C13: however the loop ends (KeyboardInterrupt, confirmed reboot,
\* confirmed shutdown), GPIO.cleanup() has run exactly once when the
\* process is done and never before the loop ended; after a confirmed
\* action it runs after the power command.
C13_CleanupExactlyOnce ==
  /\ (pc \in LoopPcs \cup {"except", "finally"} =>
        (gpio_cleanups = 0 /\ Cleanups(trace) = 0))
  /\ (pc = "done" => (gpio_cleanups = 1 /\ Cleanups(trace) = 1))
  /\ ((pc = "done" /\ exc = "SystemExit") =>
        /\ Len(trace) = 4
        /\ trace[2] = Run(cmds[1])
        /\ trace[4] = Cleanup)

C13_Witness ==
  /\ pc = "done"
  /\ exc = "SystemExit"
  /\ cmds # <<>>
  /\ gpio_cleanups = 1

\* The state at the start of the first tick: the splash is still on the
\* display and handle_input is about to run.
FirstTickStart ==
  pc = "handle_input" /\ shown = draw_overlay("Infoscreen Started...")

\* C14 as stated: at the start of the first tick every counter, stats_tick
\* included, is zero.
C14_Original ==
  FirstTickStart =>
     /\ mode = INFO /\ screen = NETWORK
     /\ display_timer = SCREEN_TIMEOUT_TICKS
     /\ btn_hold_ticks = 0 /\ cycle_tick = 0 /\ stats_tick = 0
     /\ cache_net = DefaultNet /\ cache_perf = DefaultPerf

\* C14 amended: at the start of the first tick mode = INFO, screen =
\* NETWORK, display_timer is full, btn_hold_ticks and cycle_tick are 0,
\* stats_tick is STATS_UPDATE_TICKS (the trigger value), and both caches
\* hold their defaults.
C14_InitialState ==
  FirstTickStart =>
     /\ mode = INFO /\ screen = NETWORK
     /\ display_timer = SCREEN_TIMEOUT_TICKS
     /\ btn_hold_ticks = 0 /\ cycle_tick = 0
     /\ stats_tick = STATS_UPDATE_TICKS
     /\ cache_net = DefaultNet /\ cache_perf = DefaultPerf

C14_Witness ==
  /\ FirstTickStart
  /\ stats_tick = STATS_UPDATE_TICKS
  /\ display_timer = SCREEN_TIMEOUT_TICKS
  /\ trace = <<>>

ModeRank(m) ==
  CASE m = INFO -> 0
    [] m = REBOOT_WAIT -> 1
    [] m = SHUTDOWN_WAIT -> 2

\* C15: a pressed tick never moves mode backwards along INFO ->
\* REBOOT_WAIT -> SHUTDOWN_WAIT; mode changes only in handle_input, it
\* changes to INFO only on a step that processes a release, and an
\* unpressed sample with btn_hold_ticks = 0 leaves it as it was.
C15_ModeOneWayWhileHeld ==
  /\ [][(pc = "handle_input" /\ pc' = "update_data" /\ is_pressed') =>
          ModeRank(mode') >= ModeRank(mode)]_vars
  /\ [][mode' # mode => pc = "handle_input"]_vars
  /\ [][(mode' # mode /\ mode' = INFO) => ReleaseStep]_vars
  /\ [][(pc = "handle_input" /\ pc' = "update_data" /\ ~is_pressed'
         /\ btn_hold_ticks = 0) => mode' = mode]_vars

C15_Witness ==
  /\ pc = "update_data" /\ is_pressed
  /\ run = SHUTDOWN_HOLD_TICKS + 1
  /\ mode = SHUTDOWN_WAIT

\* C16: a tick that completes pushes exactly one frame, the one
\* draw_interface composed; it is blank exactly when display_timer was 0
\* when draw_interface ran, otherwise it is the content of the current
\* mode and screen, and it is never blank on a tick whose sample was
\* pressed.
C16_OneFramePerTick ==
  [][(pc = "draw_interface" /\ pc' = "sleep") =>
        /\ trace' = <<Show(shown')>>
        /\ (Len(shown') = 0 <=> display_timer = 0)
        /\ (display_timer > 0 =>
              shown' = Content(mode, screen, cache_net, cache_perf))
        /\ (is_pressed => Len(shown') > 0)]_vars

C16_Witness ==
  /\ pc = "sleep" /\ is_pressed
  /\ mode = REBOOT_WAIT
  /\ shown = draw_overlay("REBOOT")
  /\ trace = <<Show(draw_overlay("REBOOT"))>>

\* C17: display_timer is always within 0..SCREEN_TIMEOUT_TICKS, and
\* draw_interface decrements it by exactly 1 when it is positive and
\* leaves it at 0 otherwise.
C17_TimerClamped ==
  /\ [](display_timer >= 0 /\ display_timer <= SCREEN_TIMEOUT_TICKS)
  /\ [][(pc = "draw_interface" /\ pc' = "sleep") =>
          display_timer' = (IF display_timer > 0 THEN display_timer - 1
                            ELSE 0)]_vars

C17_Witness ==
  /\ pc = "handle_input"
  /\ display_timer = 0
  /\ fullAge = SCREEN_TIMEOUT_TICKS + 1

\* C18 as stated: after a KeyboardInterrupt the process ends having, in
\* this order, pushed the farewell overlay to the display, blanked the
\* display and released the GPIO, with no power command run.
C18_InterruptSequence ==
  (pc = "done" /\ exc = "KeyboardInterrupt") =>
     /\ cmds = <<>>
     /\ Len(trace) >= 3
     /\ trace[Len(trace) - 2] = Show(draw_overlay("Closing..."))
     /\ trace[Len(trace) - 1] = Show(Blank)
     /\ trace[Len(trace)] = Cleanup

\* C19: no frame on the display shows default cache data: a network frame
\* never shows the DefaultNet pair and a performance frame never shows
\* the DefaultPerf triple (every provider result differs from them, so
\* the cache drawn was fetched at least once).
C19_NoPlaceholderDrawn ==
  /\ ((Len(shown) > 0 /\ shown[1] = "HOST") =>
        (<<shown[2], shown[4]>> # DefaultNet /\ cache_net # DefaultNet))
  /\ ((Len(shown) > 0 /\ shown[1] = "CPU") =>
        (<<shown[2], shown[4], shown[6]>> # DefaultPerf
         /\ cache_perf # DefaultPerf))

C19_Witness ==
  /\ pc = "sleep"
  /\ Len(shown) > 0 /\ shown[1] = "CPU"
  /\ <<shown[2], shown[4], shown[6]>> \in PerfReadings

\* C20: when the process is done the display is blank: the last frame
\* pushed is the blank of the finally clause, also after a confirmed
\* action, whose confirmation overlay was pushed before it.
C20_LastFrameBlank ==
  (pc = "done") =>
     /\ shown = Blank
     /\ Len(trace) >= 2
     /\ trace[Len(trace) - 1] = Show(Blank)
     /\ trace[Len(trace)] = Cleanup
     /\ (exc = "SystemExit" =>
           /\ trace[1][1] = "show" /\ Len(trace[1][2]) > 0
           /\ trace[2][1] = "run")

C20_Witness ==
  /\ pc = "done"
  /\ exc = "SystemExit"
  /\ cmds = <<"sudo shutdown now">>
  /\ shown = Blank
====
